---- MODULE Spec2Model ----
(***************************************************************************)
(* Model of src/src/3.3.py: the effect-size engine (interpret_effect_size, *)
(* cat_on_cat_effect_size, cat_on_num_effect_size, correlation_effect_size)*)
(* and the EffectSizeCalculator window that drives it.                     *)
(*                                                                         *)
(* Numbers.  A Python float is a record [k, v]: k = "fin" with v the value  *)
(* in hundredths, truncated towards zero, or k = "nan" / "inf" / "ninf".   *)
(* Every band bound of interpret_effect_size is a multiple of 0.01, so     *)
(* abs(value) < bound is decided exactly on the truncated value.           *)
(* Statistics are computed in exact integer arithmetic from integer data;  *)
(* double rounding is not modelled.                                        *)
(***************************************************************************)
EXTENDS Integers, Sequences, FiniteSets, TLC

VARIABLES
    df,               \* self.df: the loaded table, or NoAttr before a load
    col1_items,       \* items of col1_menu / col2_menu (same list)
    col1, col2,       \* currentText of col1_menu, col2_menu
    effect_type,      \* currentText of effect_type_menu
    alpha_text,       \* text of alpha_entry
    plot_type,        \* currentText of plot_type_menu
    regression,       \* regression_checkbox.isChecked()
    inputs_enabled,   \* preview button, column menus, settings widgets
    calc_enabled,     \* calculate_button.isEnabled()
    plot_enabled,     \* plot_button.isEnabled()
    save_enabled,     \* save_button.isEnabled()
    result_label,     \* result_label text
    plot_data,        \* self.plot_data, or NoAttr
    message,          \* the QMessageBox the latest handler showed, or ""
    call,             \* the engine call the latest handler made, or NoCall
    ret,              \* what that call returned or raised
    shown             \* the plotting call the latest handler made, or NoPlot

vars == <<df, col1_items, col1, col2, effect_type, alpha_text, plot_type,
          regression, inputs_enabled, calc_enabled, plot_enabled, save_enabled,
          result_label, plot_data, message, call, ret, shown>>

gui_vars == <<df, col1_items, col1, col2, effect_type, alpha_text, plot_type,
              regression, inputs_enabled, calc_enabled, plot_enabled,
              save_enabled, result_label, plot_data, message, shown>>

(***************************************************************************)
(* Python values                                                           *)
(***************************************************************************)
\* An attribute that was never assigned (hasattr(self, ...) is False).
NoAttr == [absent |-> TRUE]

\* Python's None, as str() and an f-string print it.
None == "None"

\* Fixed-point unit: v counts hundredths.
Scale == 100

Fin(v) == [k |-> "fin", v |-> v]
NaN == [k |-> "nan", v |-> 0]
PosInf == [k |-> "inf", v |-> 0]
NegInf == [k |-> "ninf", v |-> 0]

\* a < b on floats: every comparison with nan is False.
FLt(a, b) ==
    CASE a.k = "nan" \/ b.k = "nan" -> FALSE
      [] a.k = "ninf" -> b.k # "ninf"
      [] a.k = "inf" -> FALSE
      [] OTHER -> \/ b.k = "inf"
                  \/ b.k = "fin" /\ a.v < b.v

\* a <= b on floats.
FLe(a, b) ==
    CASE a.k = "nan" \/ b.k = "nan" -> FALSE
      [] a.k = "ninf" -> TRUE
      [] a.k = "inf" -> b.k = "inf"
      [] OTHER -> \/ b.k = "inf"
                  \/ b.k = "fin" /\ a.v <= b.v

\* abs(value)
FAbs(a) ==
    CASE a.k = "fin" -> Fin(IF a.v < 0 THEN -a.v ELSE a.v)
      [] a.k = "ninf" -> PosInf
      [] OTHER -> a

(***************************************************************************)
(* Strings that the code lower-cases are sequences of characters.          *)
(* The source spells the fourth kind with the two characters U+221A U+00A9 *)
(* where an e-acute is meant, in the table key and in the caller alike.    *)
(***************************************************************************)
UpperCase == <<"A","B","C","D","E","F","G","H","I","J","K","L","M",
               "N","O","P","Q","R","S","T","U","V","W","X","Y","Z">>
LowerCase == <<"a","b","c","d","e","f","g","h","i","j","k","l","m",
               "n","o","p","q","r","s","t","u","v","w","x","y","z">>

LowerChar(c) ==
    IF \E i \in DOMAIN UpperCase : UpperCase[i] = c
    THEN LowerCase[CHOOSE i \in DOMAIN UpperCase : UpperCase[i] = c]
    ELSE c

\* str.lower()
Lower(s) == [i \in DOMAIN s |-> LowerChar(s[i])]

KeyCohensD == <<"c","o","h","e","n","'","s"," ","d">>
KeyEtaSquared == <<"e","t","a"," ","s","q","u","a","r","e","d">>
KeyPearsonsR == <<"p","e","a","r","s","o","n","'","s"," ","r">>
KeyCramersV == <<"c","r","a","m","U+221A","U+00A9","r","'","s"," ","v">>

\* The kind names the analyzers pass.
NameCohensD == <<"C","o","h","e","n","'","s"," ","d">>
NameEtaSquared == <<"E","t","a"," ","S","q","u","a","r","e","d">>
NamePearsonsR == <<"P","e","a","r","s","o","n","'","s"," ","r">>
NameCramersV == <<"C","r","a","m","U+221A","U+00A9","r","'","s"," ","V">>

(***************************************************************************)
(* interpret_effect_size                                                   *)
(***************************************************************************)
interpretations ==
    (KeyCohensD :> << <<Fin(20), "small effect size">>,
                      <<Fin(50), "medium effect size">>,
                      <<Fin(80), "large effect size">>,
                      <<PosInf, "very large effect size">> >>)
 @@ (KeyEtaSquared :> << <<Fin(1), "small effect size">>,
                         <<Fin(6), "medium effect size">>,
                         <<Fin(14), "large effect size">>,
                         <<PosInf, "very large effect size">> >>)
 @@ (KeyPearsonsR :> << <<Fin(10), "negligible correlation">>,
                        <<Fin(30), "small correlation">>,
                        <<Fin(50), "medium correlation">>,
                        <<Fin(70), "large correlation">>,
                        <<Fin(90), "very large correlation">>,
                        <<PosInf, "perfect correlation">> >>)
 @@ (KeyCramersV :> << <<Fin(10), "small effect size">>,
                       <<Fin(30), "medium effect size">>,
                       <<Fin(50), "large effect size">>,
                       <<PosInf, "very large effect size">> >>)

\* A banding that also takes a magnitude equal to the bound.
BandMatchesInclusive(value, threshold) == FLe(FAbs(value), threshold)

\* The comparison of line 69.
BandMatches(value, threshold) == FLt(FAbs(value), threshold)

\* The for loop of lines 68-70 from band i on; falling off the end returns None.
RECURSIVE ScanBands(_, _, _)
ScanBands(bands, i, value) ==
    IF i > Len(bands) THEN None
    ELSE IF BandMatches(value, bands[i][1]) THEN bands[i][2]
    ELSE ScanBands(bands, i + 1, value)

\* A lookup that answers None for a kind it does not know.
interpret_effect_size_or_none(value, kind) ==
    IF Lower(kind) \notin DOMAIN interpretations
    THEN [exc |-> "", label |-> None]
    ELSE [exc |-> "", label |-> ScanBands(interpretations[Lower(kind)], 1, value)]

\* [exc, label]: exc is "" on a normal return, else the exception raised.
interpret_effect_size(value, kind) ==
    IF Lower(kind) \notin DOMAIN interpretations
    THEN [exc |-> "KeyError", label |-> None]
    ELSE [exc |-> "", label |-> ScanBands(interpretations[Lower(kind)], 1, value)]

(***************************************************************************)
(* Exact arithmetic: a rational is <<n, d>> in lowest terms with d > 0.    *)
(***************************************************************************)
IAbs(n) == IF n < 0 THEN -n ELSE n

RECURSIVE GCD(_, _)
GCD(a, b) == IF b = 0 THEN a ELSE GCD(b, a % b)

Rat(n, d) ==
    LET s == IF d < 0 THEN -1 ELSE 1
        g == GCD(IAbs(n), IAbs(d))
    IN  <<(s * n) \div g, (s * d) \div g>>

RAdd(a, b) == Rat(a[1] * b[2] + b[1] * a[2], a[2] * b[2])
RSub(a, b) == Rat(a[1] * b[2] - b[1] * a[2], a[2] * b[2])
RMul(a, b) == Rat(a[1] * b[1], a[2] * b[2])
RDiv(a, b) == Rat(a[1] * b[2], a[2] * b[1])
RInt(n) == <<n, 1>>

\* floor(sqrt(n)) by bisection; lo*lo <= n < hi*hi throughout.
RECURSIVE SqrtBetween(_, _, _)
SqrtBetween(n, lo, hi) ==
    IF hi - lo <= 1 THEN lo
    ELSE LET mid == (lo + hi) \div 2
         IN  IF mid * mid <= n THEN SqrtBetween(n, mid, hi)
             ELSE SqrtBetween(n, lo, mid)

ISqrt(n) == SqrtBetween(n, 0, IF n < 46340 THEN n + 1 ELSE 46341)

\* The float nearest below a rational, in hundredths (truncated towards zero).
ToFloat(r) ==
    Fin((IF r[1] < 0 THEN -1 ELSE 1) * ((IAbs(r[1]) * Scale) \div r[2]))

\* sgn * sqrt(r) for a rational r >= 0, in hundredths (truncated towards zero).
SqrtToFloat(sgn, r) == Fin(sgn * ISqrt((r[1] * Scale * Scale) \div r[2]))

RECURSIVE SeqSum(_)
SeqSum(s) == IF s = <<>> THEN 0 ELSE Head(s) + SeqSum(Tail(s))

SeqSumSq(s) == SeqSum([i \in DOMAIN s |-> s[i] * s[i]])

\* n * sum(x^2) - sum(x)^2: n times the sum of squared deviations from the mean.
Dev(s) == Len(s) * SeqSumSq(s) - SeqSum(s) * SeqSum(s)

\* Series.mean()
Mean(s) == Rat(SeqSum(s), Len(s))

(***************************************************************************)
(* Tables (pandas DataFrame).  A cell is missing (NaN), a text that is not *)
(* a number, or a number.  A column label is a str or an int (a numeric    *)
(* header read from a spreadsheet).                                        *)
(***************************************************************************)
NA == [k |-> "na", v |-> 0]
Txt(i) == [k |-> "txt", v |-> i]
Num(n) == [k |-> "num", v |-> n]

StrLabel(s) == [k |-> "str", s |-> s]
IntLabel(s) == [k |-> "int", s |-> s]

\* str(c) of a column label (line 575).
StrOf(label) == label.s

\* df[name]: the positions whose label equals the str name (none: KeyError).
ColPos(t, name) == {i \in DOMAIN t.columns : t.columns[i] = StrLabel(name)}
HasCol(t, name) == ColPos(t, name) # {}
Pos(t, name) == CHOOSE i \in ColPos(t, name) : TRUE

\* pd.to_numeric(errors='coerce') of one cell: what is not a number becomes NaN.
to_numeric(cell) == IF cell.k = "num" THEN cell ELSE NA

\* df = df.copy(); df[name] = pd.to_numeric(df[name], errors='coerce')
Coerce(t, name) ==
    LET p == Pos(t, name)
    IN  [t EXCEPT !.rows = [i \in DOMAIN t.rows |->
            [t.rows[i] EXCEPT ![p] = to_numeric(t.rows[i][p])]]]

\* df.dropna(subset=[a, b])
dropna(t, a, b) ==
    LET pa == Pos(t, a)
        pb == Pos(t, b)
    IN  [t EXCEPT !.rows = SelectSeq(t.rows,
            LAMBDA r : r[pa].k # "na" /\ r[pb].k # "na")]

\* The table variable df of a running analyzer: local is the object the name
\* df is bound to, caller the object the caller passed, shared whether the
\* two are one object.
Frame(t) == [caller |-> t, local |-> t, shared |-> TRUE]

\* A function that goes on working on the object it was given.
NoCopyFrame(f) == f

\* df = df.copy()
CopyFrame(f) == [f EXCEPT !.shared = FALSE]

\* df[name] = pd.to_numeric(df[name], errors='coerce'): the assignment
\* writes into the object df is bound to.
CoerceFrame(f, name) ==
    [f EXCEPT !.local = Coerce(f.local, name),
              !.caller = IF f.shared THEN Coerce(f.caller, name) ELSE f.caller]

\* df = df.dropna(subset=[a, b]): df is bound to a new object.
DropnaFrame(f, a, b) ==
    [f EXCEPT !.local = dropna(f.local, a, b), !.shared = FALSE]

\* Series.unique(): the distinct values in order of first appearance.
RECURSIVE Unique(_)
Unique(s) ==
    IF s = <<>> THEN <<>>
    ELSE LET rest == Unique(SelectSeq(Tail(s), LAMBDA x : x # Head(s)))
         IN  <<Head(s)>> \o rest

\* df[name]
Column(t, name) ==
    LET p == Pos(t, name)
    IN  [i \in DOMAIN t.rows |-> t.rows[i][p]]

\* df[cat_col].nunique(): missing values are not counted.
nunique(t, name) ==
    Cardinality({Column(t, name)[i] : i \in DOMAIN t.rows} \ {NA})

\* df[df[cat_col] == val][num_col], as the numbers it holds.
Group(t, cat_col, num_col, val) ==
    LET pc == Pos(t, cat_col)
        pn == Pos(t, num_col)
        sel == SelectSeq(t.rows, LAMBDA r : r[pc] = val)
    IN  [i \in DOMAIN sel |-> sel[i][pn].v]

NoTable == [columns |-> <<>>, rows |-> <<>>]

(***************************************************************************)
(* Results.  result_text is modelled by its parts; the :.3f formatting of  *)
(* the numbers is not modelled.  A part the text does not hold is Absent.  *)
(***************************************************************************)
Absent == [k |-> "absent", v |-> 0]

\* f"{name}: {value:.3f} ({interpretation}) (p = {p_value:.3f})"
EffectText(metric, value, interpretation, p) ==
    [kind |-> "effect", metric |-> metric, value |-> value,
     interpretation |-> interpretation, p |-> p, alpha |-> Absent]

\* f"Effect size not statistically significant (p = {p_value:.3f}, alpha = {alpha})"
NotSignificantText(p, alpha) ==
    [kind |-> "notsig", metric |-> "", value |-> Absent,
     interpretation |-> "", p |-> p, alpha |-> alpha]

NoText ==
    [kind |-> "none", metric |-> "", value |-> Absent,
     interpretation |-> "", p |-> Absent, alpha |-> Absent]

NoCtab == [rowvals |-> {}, colvals |-> {}, count |-> <<>>]

\* return result_text, <data>, a, b.  test names the significance test that
\* ran: "chi2", "ttest", "anova", "pearsonr".
Return(text, data, ctab, test) ==
    [exc |-> "", msg |-> "", text |-> text, data |-> data, ctab |-> ctab,
     test |-> test]

\* raise exc(msg): nothing is returned.  test is "" when no test had run.
Raise(exc, msg, test) ==
    [exc |-> exc, msg |-> msg, text |-> NoText, data |-> NoTable,
     ctab |-> NoCtab, test |-> test]

MsgCategories == "Categorical column must have at least 2 categories for comparison."
MsgPooledZero == "Pooled standard deviation is zero; cannot compute Cohen's d."
MsgNotEnough == "Not enough valid numeric data for correlation."
MsgNoData == "No data; observed has size 0."

\* The output policy shared by the three analyzers (lines 139-143, 166-170,
\* 175-179, 194-198).
Significant(p, alpha) == FLe(p, alpha)

Report(metric, kind, value, p, alpha) ==
    IF Significant(p, alpha)
    THEN LET i == interpret_effect_size(value, kind)
         IN  IF i.exc # "" THEN [raised |-> i.exc, text |-> NoText]
             ELSE [raised |-> "", text |-> EffectText(metric, value, i.label, p)]
    ELSE [raised |-> "", text |-> NotSignificantText(p, alpha)]

(***************************************************************************)
(* p-values.  The tests are library code (scipy, pingouin): a p-value is   *)
(* an outcome the library returns, drawn from the set the data allow.      *)
(* Where the statistic is degenerate the library's value is forced.        *)
(***************************************************************************)
POne == Fin(Scale)
PZero == Fin(0)

\* Sample p-values strictly between 0 and 1: 0.01, 0.05, 0.06, 0.50.
PValues == {Fin(1), Fin(5), Fin(6), Fin(50)}

\* The elements of a finite set, in some order.
RECURSIVE SetToSeq(_)
SetToSeq(S) ==
    IF S = {} THEN <<>>
    ELSE LET x == CHOOSE y \in S : TRUE
         IN  <<x>> \o SetToSeq(S \ {x})

\* The sum of a sequence of rationals.
RECURSIVE RSum(_)
RSum(s) == IF s = <<>> THEN RInt(0) ELSE RAdd(Head(s), RSum(Tail(s)))

(***************************************************************************)
(* cat_on_cat_effect_size                                                  *)
(***************************************************************************)
\* pd.crosstab(s1, s2) of two columns: counts per observed pair of values; a
\* row that is missing in either column is not counted.
crosstab(s1, s2) ==
    LET kept == {i \in DOMAIN s1 : s1[i].k # "na" /\ s2[i].k # "na"}
        rv == {s1[i] : i \in kept}
        cv == {s2[i] : i \in kept}
    IN  [rowvals |-> rv, colvals |-> cv,
         count |-> [c \in rv \X cv |->
            Cardinality({i \in kept : s1[i] = c[1] /\ s2[i] = c[2]})]]

RowTotal(ct, x) ==
    LET cs == SetToSeq(ct.colvals)
    IN  SeqSum([i \in DOMAIN cs |-> ct.count[<<x, cs[i]>>]])
ColTotal(ct, y) ==
    LET rs == SetToSeq(ct.rowvals)
    IN  SeqSum([i \in DOMAIN rs |-> ct.count[<<rs[i], y>>]])

\* contingency_table.values.sum()
Total(ct) ==
    LET rs == SetToSeq(ct.rowvals)
    IN  SeqSum([i \in DOMAIN rs |-> RowTotal(ct, rs[i])])

\* degrees of freedom of the independence test
Dof(ct) == (Cardinality(ct.rowvals) - 1) * (Cardinality(ct.colvals) - 1)

\* One cell's (observed - expected)^2 / expected, expected = R * C / n.  With
\* one degree of freedom scipy applies Yates' correction: |observed - expected|
\* is reduced by min(0.5, |observed - expected|).
Chi2Cell(observed, R, C, n, dof) ==
    LET diff == IAbs(n * observed - R * C)
        yates == IF 2 * diff > n THEN 2 * diff - n ELSE 0
    IN  IF dof = 1 THEN Rat(yates * yates, 4 * n * R * C)
        ELSE Rat(diff * diff, n * R * C)

\* The statistic of stats.chi2_contingency (0.0 when there is no degree of
\* freedom).
Chi2(ct) ==
    LET cells == SetToSeq(ct.rowvals \X ct.colvals)
        n == Total(ct)
        dof == Dof(ct)
    IN  IF dof = 0 THEN RInt(0)
        ELSE RSum([i \in DOMAIN cells |->
                Chi2Cell(ct.count[cells[i]], RowTotal(ct, cells[i][1]),
                         ColTotal(ct, cells[i][2]), n, dof)])

\* The p-values stats.chi2_contingency can return.
Chi2P(ct) ==
    IF Dof(ct) = 0 \/ Chi2(ct)[1] = 0 THEN {POne} ELSE PValues

\* The smaller of k - 1 and r - 1 with no floor.
DenomUnfloored(r, k) == IF k - 1 < r - 1 THEN k - 1 ELSE r - 1

\* line 134
Denom(r, k) ==
    IF (IF k - 1 < r - 1 THEN k - 1 ELSE r - 1) > 0
    THEN (IF k - 1 < r - 1 THEN k - 1 ELSE r - 1)
    ELSE 1

\* lines 136-137: np.sqrt((chi2 / n) / denom)
CramersV(ct) ==
    LET phi2 == RDiv(Chi2(ct), RInt(Total(ct)))
    IN  SqrtToFloat(1, RDiv(phi2,
            RInt(Denom(Cardinality(ct.rowvals), Cardinality(ct.colvals)))))

cat_on_cat_effect_size(t, cat_col1, cat_col2, alpha, p) ==
    IF ~HasCol(t, cat_col1) \/ ~HasCol(t, cat_col2) THEN Raise("KeyError", "", "")
    ELSE LET ct == crosstab(Column(t, cat_col1), Column(t, cat_col2))
         IN  IF ct.rowvals = {} THEN Raise("ValueError", MsgNoData, "")
             ELSE LET rep == Report("Cramer's V", NameCramersV, CramersV(ct), p, alpha)
                  IN  IF rep.raised # "" THEN Raise(rep.raised, "", "chi2")
                      ELSE Return(rep.text, NoTable, ct, "chi2")

\* The p-values the library can return to this call ({NaN}: it is not reached).
CatCatP(t, a, b) ==
    IF ~HasCol(t, a) \/ ~HasCol(t, b) THEN {NaN}
    ELSE LET ct == crosstab(Column(t, a), Column(t, b))
         IN  IF ct.rowvals = {} THEN {NaN} ELSE Chi2P(ct)

(***************************************************************************)
(* cat_on_num_effect_size                                                  *)
(***************************************************************************)
\* A cleaning that drops missing cells without coercing the numeric column.
CleanCatNumUncoerced(t, cat_col, num_col) == dropna(t, cat_col, num_col)

\* lines 149-151: the cleaned copy the function works on.
CleanCatNum(t, cat_col, num_col) ==
    DropnaFrame(CoerceFrame(CopyFrame(Frame(t)), num_col), cat_col, num_col).local

\* Series.var(ddof=1): [nan, r]; it is NaN for fewer than two values.
Var(s) ==
    IF Len(s) < 2 THEN [nan |-> TRUE, r |-> RInt(0)]
    ELSE [nan |-> FALSE, r |-> Rat(Dev(s), Len(s) * (Len(s) - 1))]

\* line 162 before the square root: (group1.var(ddof=1) + group2.var(ddof=1)) / 2
PooledVar(g1, g2) ==
    IF Var(g1).nan \/ Var(g2).nan THEN [nan |-> TRUE, r |-> RInt(0)]
    ELSE [nan |-> FALSE, r |-> RDiv(RAdd(Var(g1).r, Var(g2).r), RInt(2))]

\* line 163: pooled_std == 0 (False for NaN).
PooledStdIsZero(g1, g2) == ~PooledVar(g1, g2).nan /\ PooledVar(g1, g2).r[1] = 0

\* line 165: (group1.mean() - group2.mean()) / pooled_std, pooled_std nonzero.
CohenD(g1, g2) ==
    LET diff == RSub(Mean(g1), Mean(g2))
    IN  IF PooledVar(g1, g2).nan THEN NaN
        ELSE SqrtToFloat(IF diff[1] < 0 THEN -1 ELSE 1,
                         RDiv(RMul(diff, diff), PooledVar(g1, g2).r))

\* Sum of squared deviations from the own mean.
SS(s) == Rat(Dev(s), Len(s))

\* The p-values stats.ttest_ind (equal variances) can return.  The pooled
\* variance is (SS1 + SS2) / (n1 + n2 - 2).  With a single observation in one
\* group the library either takes that group's variance as 0 or, in older
\* builds, propagates its NaN.
TTestP(g1, g2) ==
    LET ssp == RAdd(SS(g1), SS(g2))
        same == RSub(Mean(g1), Mean(g2))[1] = 0
        forced == IF Len(g1) + Len(g2) - 2 = 0 THEN {NaN}
                  ELSE IF ssp[1] = 0 THEN (IF same THEN {NaN} ELSE {PZero})
                  ELSE IF same THEN {POne}
                  ELSE PValues
    IN  IF Len(g1) = 1 \/ Len(g2) = 1 THEN forced \cup {NaN} ELSE forced

\* The groups of the cleaned table, in order of first appearance.
Groups(t, cat_col, num_col) ==
    LET u == Unique(Column(t, cat_col))
    IN  [i \in DOMAIN u |-> Group(t, cat_col, num_col, u[i])]

\* pg.anova: sums of squares within and between the groups.
SSWithin(gs) == RSum([i \in DOMAIN gs |-> SS(gs[i])])
SSBetween(t, num_col, gs) ==
    LET pn == Pos(t, num_col)
    IN  RSub(SS([i \in DOMAIN t.rows |-> t.rows[i][pn].v]), SSWithin(gs))

\* anova_results['np2'][0] = ss_between / (ss_between + ss_within)
EtaSquared(t, num_col, gs) ==
    LET b == SSBetween(t, num_col, gs)
        w == SSWithin(gs)
    IN  IF RAdd(b, w)[1] = 0 THEN NaN ELSE ToFloat(RDiv(b, RAdd(b, w)))

\* The p-values pg.anova can return: F = (ss_between / (g - 1)) /
\* (ss_within / (n - g)).
AnovaP(t, num_col, gs) ==
    LET b == SSBetween(t, num_col, gs)
        w == SSWithin(gs)
    IN  IF Len(t.rows) - Len(gs) = 0 THEN {NaN}
        ELSE IF w[1] = 0 THEN (IF b[1] = 0 THEN {NaN} ELSE {PZero})
        ELSE IF b[1] = 0 THEN {POne}
        ELSE PValues

\* A two-group path that looks at the pooled deviation only once the test
\* came out significant.
TwoGroupsLateCheck(c, cat_col, num_col, alpha, p) ==
    LET gs == Groups(c, cat_col, num_col)
    IN  IF ~Significant(p, alpha)
        THEN Return(NotSignificantText(p, alpha), c, NoCtab, "ttest")
        ELSE IF PooledStdIsZero(gs[1], gs[2])
        THEN Raise("ValueError", MsgPooledZero, "ttest")
        ELSE LET rep == Report("Cohen's d", NameCohensD, CohenD(gs[1], gs[2]), p, alpha)
             IN  IF rep.raised # "" THEN Raise(rep.raised, "", "ttest")
                 ELSE Return(rep.text, c, NoCtab, "ttest")

\* lines 157-170
TwoGroups(c, cat_col, num_col, alpha, p) ==
    LET gs == Groups(c, cat_col, num_col)
    IN  IF PooledStdIsZero(gs[1], gs[2])
        THEN Raise("ValueError", MsgPooledZero, "ttest")
        ELSE LET rep == Report("Cohen's d", NameCohensD, CohenD(gs[1], gs[2]), p, alpha)
             IN  IF rep.raised # "" THEN Raise(rep.raised, "", "ttest")
                 ELSE Return(rep.text, c, NoCtab, "ttest")

\* lines 171-179
ManyGroups(c, cat_col, num_col, alpha, p) ==
    LET gs == Groups(c, cat_col, num_col)
        rep == Report("Eta Squared", NameEtaSquared, EtaSquared(c, num_col, gs), p, alpha)
    IN  IF rep.raised # "" THEN Raise(rep.raised, "", "anova")
        ELSE Return(rep.text, c, NoCtab, "anova")

cat_on_num_effect_size(t, cat_col, num_col, alpha, p) ==
    IF ~HasCol(t, cat_col) \/ ~HasCol(t, num_col) THEN Raise("KeyError", "", "")
    ELSE LET c == CleanCatNum(t, cat_col, num_col)
             num_categories == nunique(c, cat_col)
         IN  IF num_categories < 2 THEN Raise("ValueError", MsgCategories, "")
             ELSE IF num_categories = 2 THEN TwoGroups(c, cat_col, num_col, alpha, p)
             ELSE ManyGroups(c, cat_col, num_col, alpha, p)

CatNumP(t, a, b) ==
    IF ~HasCol(t, a) \/ ~HasCol(t, b) THEN {NaN}
    ELSE LET c == CleanCatNum(t, a, b)
             gs == Groups(c, a, b)
         IN  IF nunique(c, a) < 2 THEN {NaN}
             ELSE IF nunique(c, a) = 2 THEN TTestP(gs[1], gs[2])
             ELSE AnovaP(c, b, gs)

(***************************************************************************)
(* correlation_effect_size                                                 *)
(***************************************************************************)
\* A cleaning that coerces the first column only.
CleanNumNumFirstOnly(t, a, b) == dropna(Coerce(t, a), a, b)

\* lines 185-188
CleanNumNum(t, a, b) ==
    DropnaFrame(CoerceFrame(CoerceFrame(CopyFrame(Frame(t)), a), b), a, b).local

Values(t, name) ==
    LET p == Pos(t, name)
    IN  [i \in DOMAIN t.rows |-> t.rows[i][p].v]

\* n * sum(x*y) - sum(x) * sum(y)
CoDev(x, y) ==
    Len(x) * SeqSum([i \in DOMAIN x |-> x[i] * y[i]]) - SeqSum(x) * SeqSum(y)

\* stats.pearsonr's r: NaN for a constant column.
PearsonR(x, y) ==
    IF Dev(x) = 0 \/ Dev(y) = 0 THEN NaN
    ELSE SqrtToFloat(IF CoDev(x, y) < 0 THEN -1 ELSE 1,
                     Rat(CoDev(x, y) * CoDev(x, y), Dev(x) * Dev(y)))

\* The p-values stats.pearsonr can return.
PearsonP(x, y) ==
    IF Dev(x) = 0 \/ Dev(y) = 0 THEN {NaN}
    ELSE IF Len(x) = 2 THEN {POne}
    ELSE IF CoDev(x, y) * CoDev(x, y) = Dev(x) * Dev(y) THEN {PZero}
    ELSE IF CoDev(x, y) = 0 THEN {POne}
    ELSE PValues

correlation_effect_size(t, a, b, alpha, p) ==
    IF ~HasCol(t, a) \/ ~HasCol(t, b) THEN Raise("KeyError", "", "")
    ELSE LET c == CleanNumNum(t, a, b)
         IN  IF Len(c.rows) < 2 THEN Raise("ValueError", MsgNotEnough, "")
             ELSE LET rep == Report("Pearson's r", NamePearsonsR,
                                    PearsonR(Values(c, a), Values(c, b)), p, alpha)
                  IN  IF rep.raised # "" THEN Raise(rep.raised, "", "pearsonr")
                      ELSE Return(rep.text, c, NoCtab, "pearsonr")

CorrP(t, a, b) ==
    IF ~HasCol(t, a) \/ ~HasCol(t, b) THEN {NaN}
    ELSE LET c == CleanNumNum(t, a, b)
         IN  IF Len(c.rows) < 2 THEN {NaN}
             ELSE PearsonP(Values(c, a), Values(c, b))

(***************************************************************************)
(* Engine calls.  call holds the function and its arguments (p: the        *)
(* p-value the library returned to it), ret what it returned or raised.    *)
(***************************************************************************)
Call(fn, t, a, b, alpha, p) ==
    [fn |-> fn, df |-> t, a |-> a, b |-> b, alpha |-> alpha, p |-> p]

NoCall == Call("", NoTable, "", "", Absent, Absent)
Pending == Raise("pending", "", "")

\* The result of the analyzer named fn.
Analyze(fn, t, a, b, alpha, p) ==
    CASE fn = "cat_on_cat_effect_size" -> cat_on_cat_effect_size(t, a, b, alpha, p)
      [] fn = "cat_on_num_effect_size" -> cat_on_num_effect_size(t, a, b, alpha, p)
      [] OTHER -> correlation_effect_size(t, a, b, alpha, p)

\* The caller's table once the analyzer named fn has returned or raised.
\* cat_on_cat_effect_size only reads it; the other two write into df up to
\* the first column that is missing (KeyError), and dropna writes nothing.
CallerTableAfter(fn, t, a, b) ==
    LET f == CopyFrame(Frame(t))
    IN  CASE fn = "cat_on_cat_effect_size" -> t
          [] fn = "cat_on_num_effect_size" ->
                (IF HasCol(t, b) THEN CoerceFrame(f, b) ELSE f).caller
          [] OTHER ->
                (IF ~HasCol(t, a) THEN f
                 ELSE IF ~HasCol(t, b) THEN CoerceFrame(f, a)
                 ELSE CoerceFrame(CoerceFrame(f, a), b)).caller

\* The p-values the library can return inside the analyzer named fn.
LibraryP(fn, t, a, b) ==
    CASE fn = "cat_on_cat_effect_size" -> CatCatP(t, a, b)
      [] fn = "cat_on_num_effect_size" -> CatNumP(t, a, b)
      [] OTHER -> CorrP(t, a, b)

(***************************************************************************)
(* The window after __init__ / init_ui.                                    *)
(***************************************************************************)
CatOnCat == "Categorical on Categorical"
CatOnNum == "Categorical on Numerical"
NumCorr == "Numerical Correlation"

\* update_plot_options: the items of plot_type_menu for an effect type.
PlotOptions(et) ==
    CASE et = CatOnCat -> <<"Stacked Bar Chart", "Grouped Bar Chart", "Heatmap">>
      [] et = CatOnNum -> <<"Box Plot", "Violin Plot", "Strip Plot">>
      [] et = NumCorr -> <<"Scatter Plot", "Hexbin Plot", "Regression Plot">>
      [] OTHER -> <<>>

\* currentText() of a combo box that was just filled: its first item, or "".
FirstText(items) == IF items = <<>> THEN "" ELSE items[1]

NoPlot == [fn |-> "", data |-> NoTable, ctab |-> NoCtab, a |-> "", b |-> "",
           plot_type |-> "", add_regression |-> FALSE]

GuiInit ==
    /\ df = NoAttr
    /\ col1_items = <<>>
    /\ col1 = ""
    /\ col2 = ""
    /\ effect_type = CatOnCat
    /\ alpha_text = "0.05"
    /\ plot_type = FirstText(PlotOptions(CatOnCat))
    /\ regression = FALSE
    /\ inputs_enabled = FALSE
    /\ calc_enabled = FALSE
    /\ plot_enabled = FALSE
    /\ save_enabled = FALSE
    /\ result_label = NoText
    /\ plot_data = NoAttr
    /\ message = ""
    /\ shown = NoPlot

(***************************************************************************)
(* interpret_effect_size as a function of its arguments.                   *)
(***************************************************************************)
\* Finite values range over -IVMax .. IVMax hundredths.
IVMax == 100

InterpretValues == {Fin(v) : v \in -IVMax..IVMax} \cup {NaN, PosInf, NegInf}

InterpretKinds ==
    {NameCohensD, NameEtaSquared, NamePearsonsR, NameCramersV,
     KeyCohensD, KeyEtaSquared, KeyPearsonsR, KeyCramersV,
     <<"C","O","H","E","N","'","S"," ","D">>,
     <<"E","T","A"," ","S","Q","U","A","R","E","D">>,
     <<"h","e","d","g","e","s","'"," ","g">>,
     <<"c","o","h","e","n","s"," ","d">>,
     <<"C","r","a","m","U+00E9","r","'","s"," ","V">>,
     <<>>}

PendingLabel == [exc |-> "pending", label |-> None]

InterpretInit ==
    /\ GuiInit
    /\ call \in {[fn |-> "interpret_effect_size", value |-> v, kind |-> k] :
                    v \in InterpretValues, k \in InterpretKinds}
    /\ ret = PendingLabel

Interpret ==
    /\ ret = PendingLabel
    /\ ret' = interpret_effect_size(call.value, call.kind)
    /\ UNCHANGED <<call, gui_vars>>

InterpretNext == Interpret

SpecInterpret == InterpretInit /\ [][InterpretNext]_vars

(***************************************************************************)
(* The three analyzers as functions of their arguments.                    *)
(***************************************************************************)
\* Tables of at most MaxRows rows over two columns, x and y.
MaxRows == 4

CellSeq == <<NA, Txt(1), Num(0), Num(1)>>
Cells == {CellSeq[i] : i \in DOMAIN CellSeq}

CellRank(c) == CHOOSE i \in DOMAIN CellSeq : CellSeq[i] = c
RowRank(r) == Len(CellSeq) * CellRank(r[1]) + CellRank(r[2])

\* Row order only decides which group is named first; the tables drawn list
\* their rows in rank order.
RowsInOrder(rows) ==
    \A i \in DOMAIN rows : i = 1 \/ RowRank(rows[i - 1]) <= RowRank(rows[i])

RECURSIVE OrderedRows(_)
OrderedRows(n) ==
    IF n = 0 THEN {<<>>}
    ELSE {Append(s, <<c1, c2>>) : s \in OrderedRows(n - 1), c1 \in Cells, c2 \in Cells}
            \cap {s \in Seq(Cells \X Cells) : RowsInOrder(s)}

Tables == {[columns |-> <<StrLabel("x"), StrLabel("y")>>, rows |-> r] :
              r \in UNION {OrderedRows(n) : n \in 0..MaxRows}}

Analyzers == {"cat_on_cat_effect_size", "cat_on_num_effect_size",
              "correlation_effect_size"}

\* alpha = 0.05
Alphas == {Fin(5)}

AnalyzersInit ==
    /\ GuiInit
    /\ call \in {Call(fn, t, "x", "y", alpha, Absent) :
                    fn \in Analyzers, t \in Tables, alpha \in Alphas}
    /\ ret = Pending

RunAnalyzer ==
    /\ ret = Pending
    /\ \E p \in LibraryP(call.fn, call.df, call.a, call.b) :
          /\ call' = [call EXCEPT !.p = p,
                                   !.df = CallerTableAfter(call.fn, call.df,
                                                           call.a, call.b)]
          /\ ret' = Analyze(call.fn, call.df, call.a, call.b, call.alpha, p)
    /\ UNCHANGED gui_vars

AnalyzersNext == RunAnalyzer

SpecAnalyzers == AnalyzersInit /\ [][AnalyzersNext]_vars

(***************************************************************************)
(* cat_on_cat_effect_size line by line up to Cramer's V: ret holds the     *)
(* line reached and the locals r, k, denom and cramers_v.                  *)
(***************************************************************************)
CatLocals(line, r, k, denom, v) ==
    [line |-> line, r |-> r, k |-> k, denom |-> denom, cramers_v |-> v]

CramersVInit ==
    /\ GuiInit
    /\ call \in {Call("cat_on_cat_effect_size", t, "x", "y", alpha, Absent) :
                    t \in Tables, alpha \in Alphas}
    /\ ret = CatLocals(129, 0, 0, 0, Absent)

\* lines 130-131 on a table with no complete row: chi2_contingency raises.
TabulateRaises ==
    /\ ret.line = 129
    /\ crosstab(Column(call.df, call.a), Column(call.df, call.b)).rowvals = {}
    /\ ret' = CatLocals(131, 0, 0, 0, Absent)
    /\ UNCHANGED <<call, gui_vars>>

\* lines 130-134: the contingency table, its shape and denom.
Tabulate ==
    /\ ret.line = 129
    /\ LET ct == crosstab(Column(call.df, call.a), Column(call.df, call.b))
           r == Cardinality(ct.rowvals)
           k == Cardinality(ct.colvals)
       IN  /\ ct.rowvals # {}
           /\ ret' = CatLocals(134, r, k, Denom(r, k), Absent)
    /\ UNCHANGED <<call, gui_vars>>

\* lines 136-137: phi2 and cramers_v.
Divide ==
    /\ ret.line = 134
    /\ ret' = [ret EXCEPT !.line = 137,
                          !.cramers_v = CramersV(crosstab(Column(call.df, call.a),
                                                          Column(call.df, call.b)))]
    /\ UNCHANGED <<call, gui_vars>>

CramersVNext == TabulateRaises \/ Tabulate \/ Divide

SpecCramersV == CramersVInit /\ [][CramersVNext]_vars

(***************************************************************************)
(* EffectSizeCalculator: the window and its handlers.                      *)
(***************************************************************************)
Table2(c1, c2, rows) == [columns |-> <<c1, c2>>, rows |-> rows]

\* Files the user can open.
TConstant ==
    Table2(StrLabel("group"), StrLabel("score"),
           << <<Txt(1), Num(5)>>, <<Txt(1), Num(5)>>,
              <<Txt(2), Num(5)>>, <<Txt(2), Num(5)>>, <<NA, Num(6)>> >>)
TNumeric ==
    Table2(StrLabel("x"), StrLabel("y"),
           << <<Num(1), Num(5)>>, <<Num(2), Num(7)>>, <<Num(3), Num(9)>>,
              <<Num(4), NA>>, <<Txt(1), Num(2)>> >>)
TIntHeader ==
    Table2(IntLabel("1"), IntLabel("2"),
           << <<Num(1), Num(2)>>, <<Num(2), Num(1)>> >>)

Files == {TConstant, TNumeric, TIntHeader}

EffectTypes == {CatOnCat, CatOnNum, NumCorr}

\* float(text) of the texts the user can type: [ok, value].
ParseFloat(text) ==
    CASE text = "0.05" -> [ok |-> TRUE, value |-> Fin(5)]
      [] text = "0" -> [ok |-> TRUE, value |-> Fin(0)]
      [] text = "1" -> [ok |-> TRUE, value |-> Fin(Scale)]
      [] text = "-1" -> [ok |-> TRUE, value |-> Fin(-Scale)]
      [] text = "2" -> [ok |-> TRUE, value |-> Fin(2 * Scale)]
      [] OTHER -> [ok |-> FALSE, value |-> NaN]

AlphaTexts == {"0.05", "abc", "2"}

MsgLoadFirst == "Please load a dataset first."
MsgAlpha == "Significance (alpha) must be a numeric value."
MsgColumns == "Please select two different columns."
MsgLoadFailed == "Could not load file"
MsgSaved == "Plot saved successfully!"

\* str(e) of what an analyzer raised.
ErrorText(r) == IF r.exc = "KeyError" THEN "KeyError" ELSE r.msg

\* A handler that calls neither the engine nor a plotting function.
NoEngineCall == call' = NoCall /\ ret' = Pending
NoPlotCall == shown' = NoPlot

\* load_file, the dialog cancelled: nothing happens.
LoadCancel ==
    /\ message' = ""
    /\ UNCHANGED <<df, col1_items, col1, col2, effect_type, alpha_text,
                   plot_type, regression, inputs_enabled, calc_enabled,
                   plot_enabled, save_enabled, result_label, plot_data>>
    /\ NoEngineCall
    /\ NoPlotCall

\* A failed load that enables the Calculate button all the same.
LoadFailEnabling ==
    /\ message' = MsgLoadFailed
    /\ calc_enabled' = TRUE
    /\ UNCHANGED <<df, col1_items, col1, col2, effect_type, alpha_text,
                   plot_type, regression, inputs_enabled,
                   plot_enabled, save_enabled, result_label, plot_data>>
    /\ NoEngineCall
    /\ NoPlotCall

\* load_file, reading the file raises: self.df is not assigned.
LoadFail ==
    /\ message' = MsgLoadFailed
    /\ UNCHANGED <<df, col1_items, col1, col2, effect_type, alpha_text,
                   plot_type, regression, inputs_enabled, calc_enabled,
                   plot_enabled, save_enabled, result_label, plot_data>>
    /\ NoEngineCall
    /\ NoPlotCall

\* load_file, the file read: lines 563-586.
LoadOk ==
    \E t \in Files :
        /\ df' = t
        /\ col1_items' = [i \in DOMAIN t.columns |-> StrOf(t.columns[i])]
        /\ col1' = FirstText(col1_items')
        /\ col2' = FirstText(col1_items')
        /\ inputs_enabled' = TRUE
        /\ message' = ""
        /\ UNCHANGED <<effect_type, alpha_text, plot_type, regression,
                       calc_enabled, plot_enabled, save_enabled, result_label,
                       plot_data>>
        /\ NoEngineCall
        /\ NoPlotCall

load_file == LoadCancel \/ LoadFail \/ LoadOk

preview_data ==
    /\ inputs_enabled
    /\ IF df = NoAttr THEN UNCHANGED calc_enabled ELSE calc_enabled' = TRUE
    /\ message' = ""
    /\ UNCHANGED <<df, col1_items, col1, col2, effect_type, alpha_text,
                   plot_type, regression, inputs_enabled, plot_enabled,
                   save_enabled, result_label, plot_data>>
    /\ NoEngineCall
    /\ NoPlotCall

\* The user picks an item of col1_menu or col2_menu.
SelectColumns ==
    /\ inputs_enabled
    /\ \E i, j \in DOMAIN col1_items :
          /\ col1' = col1_items[i]
          /\ col2' = col1_items[j]
    /\ message' = ""
    /\ UNCHANGED <<df, col1_items, effect_type, alpha_text, plot_type,
                   regression, inputs_enabled, calc_enabled, plot_enabled,
                   save_enabled, result_label, plot_data>>
    /\ NoEngineCall
    /\ NoPlotCall

\* The user picks another effect type: currentTextChanged runs
\* update_plot_options, which refills plot_type_menu.
SelectEffectType ==
    /\ inputs_enabled
    /\ \E et \in EffectTypes \ {effect_type} :
          /\ effect_type' = et
          /\ plot_type' = FirstText(PlotOptions(et))
    /\ message' = ""
    /\ UNCHANGED <<df, col1_items, col1, col2, alpha_text, regression,
                   inputs_enabled, calc_enabled, plot_enabled, save_enabled,
                   result_label, plot_data>>
    /\ NoEngineCall
    /\ NoPlotCall

\* The user picks an item of plot_type_menu.
SelectPlotType ==
    /\ inputs_enabled
    /\ \E i \in DOMAIN PlotOptions(effect_type) :
          plot_type' = PlotOptions(effect_type)[i]
    /\ message' = ""
    /\ UNCHANGED <<df, col1_items, col1, col2, effect_type, alpha_text,
                   regression, inputs_enabled, calc_enabled, plot_enabled,
                   save_enabled, result_label, plot_data>>
    /\ NoEngineCall
    /\ NoPlotCall

\* The user edits alpha_entry.
EditAlpha ==
    /\ inputs_enabled
    /\ \E text \in AlphaTexts : alpha_text' = text
    /\ message' = ""
    /\ UNCHANGED <<df, col1_items, col1, col2, effect_type, plot_type,
                   regression, inputs_enabled, calc_enabled, plot_enabled,
                   save_enabled, result_label, plot_data>>
    /\ NoEngineCall
    /\ NoPlotCall

\* The analyzer calculate_effect_size dispatches to (lines 667-672).
Dispatch(et) ==
    CASE et = CatOnCat -> "cat_on_cat_effect_size"
      [] et = CatOnNum -> "cat_on_num_effect_size"
      [] OTHER -> "correlation_effect_size"

\* self.plot_data = (self.df, col1, col2, effect_type)
PlotData(t, a, b, et) == [df |-> t, col1 |-> a, col2 |-> b, effect_type |-> et]

\* A return before the try block of lines 666-680: only a message box.
Reject(text) ==
    /\ message' = text
    /\ UNCHANGED <<df, col1_items, col1, col2, effect_type, alpha_text,
                   plot_type, regression, inputs_enabled, calc_enabled,
                   plot_enabled, save_enabled, result_label, plot_data>>
    /\ NoEngineCall
    /\ NoPlotCall

\* A calculation that blanks the result label when the analyzer raises.
RunCalculationClearing(alpha, p) ==
    LET fn == Dispatch(effect_type)
        r == Analyze(fn, df, col1, col2, alpha, p)
    IN  /\ call' = Call(fn, df, col1, col2, alpha, p)
        /\ ret' = r
        /\ df' = CallerTableAfter(fn, df, col1, col2)
        /\ result_label' = r.text
        /\ IF r.exc = ""
           THEN /\ plot_data' = PlotData(df', col1, col2, effect_type)
                /\ plot_enabled' = TRUE
                /\ save_enabled' = TRUE
                /\ message' = ""
           ELSE /\ message' = ErrorText(r)
                /\ UNCHANGED <<plot_data, plot_enabled, save_enabled>>
        /\ NoPlotCall
        /\ UNCHANGED <<col1_items, col1, col2, effect_type, alpha_text,
                       plot_type, regression, inputs_enabled, calc_enabled>>

\* lines 666-680: the analyzer runs with the p-value p from the library.
RunCalculation(alpha, p) ==
    LET fn == Dispatch(effect_type)
        r == Analyze(fn, df, col1, col2, alpha, p)
    IN  /\ call' = Call(fn, df, col1, col2, alpha, p)
        /\ ret' = r
        /\ df' = CallerTableAfter(fn, df, col1, col2)
        /\ IF r.exc = ""
           THEN /\ result_label' = r.text
                /\ plot_data' = PlotData(df', col1, col2, effect_type)
                /\ plot_enabled' = TRUE
                /\ save_enabled' = TRUE
                /\ message' = ""
           ELSE /\ message' = ErrorText(r)
                /\ UNCHANGED <<result_label, plot_data, plot_enabled, save_enabled>>
        /\ NoPlotCall
        /\ UNCHANGED <<col1_items, col1, col2, effect_type, alpha_text,
                       plot_type, regression, inputs_enabled, calc_enabled>>

\* A handler that blanks the result label when it rejects identical columns.
calculate_effect_size_clearing ==
    /\ calc_enabled
    /\ IF df = NoAttr THEN Reject(MsgLoadFirst)
       ELSE IF ~ParseFloat(alpha_text).ok THEN Reject(MsgAlpha)
       ELSE IF col1 = col2
       THEN /\ message' = MsgColumns
            /\ result_label' = NoText
            /\ UNCHANGED <<df, col1_items, col1, col2, effect_type, alpha_text,
                           plot_type, regression, inputs_enabled, calc_enabled,
                           plot_enabled, save_enabled, plot_data>>
            /\ NoEngineCall
            /\ NoPlotCall
       ELSE \E p \in LibraryP(Dispatch(effect_type), df, col1, col2) :
               RunCalculation(ParseFloat(alpha_text).value, p)

calculate_effect_size ==
    /\ calc_enabled
    /\ IF df = NoAttr THEN Reject(MsgLoadFirst)
       ELSE IF ~ParseFloat(alpha_text).ok THEN Reject(MsgAlpha)
       ELSE IF col1 = col2 THEN Reject(MsgColumns)
       ELSE \E p \in LibraryP(Dispatch(effect_type), df, col1, col2) :
               RunCalculation(ParseFloat(alpha_text).value, p)

\* The plotting call of lines 697-704 / 721-728 on self.plot_data.
PlotCall(pd, pt, reg) ==
    CASE pd.effect_type = CatOnCat ->
            [fn |-> "show_cramers_v_plot", data |-> NoTable,
             ctab |-> crosstab(Column(pd.df, pd.col1), Column(pd.df, pd.col2)),
             a |-> pd.col1, b |-> pd.col2, plot_type |-> pt,
             add_regression |-> FALSE]
      [] pd.effect_type = CatOnNum ->
            [fn |-> "show_cohens_d_plot", data |-> pd.df, ctab |-> NoCtab,
             a |-> pd.col1, b |-> pd.col2, plot_type |-> pt,
             add_regression |-> FALSE]
      [] OTHER ->
            [fn |-> "show_pearsons_r_plot", data |-> pd.df, ctab |-> NoCtab,
             a |-> pd.col1, b |-> pd.col2, plot_type |-> pt,
             add_regression |-> reg]

MsgPlotError == "plot error"

\* The body of show_plot with the checkbox state reg.  The drawing is
\* library code: it succeeds or raises, and a raise only shows a message.
ShowPlotBody(reg) ==
    IF plot_data = NoAttr THEN /\ message' = ""
                               /\ NoPlotCall
    ELSE /\ shown' = PlotCall(plot_data, plot_type, reg)
         /\ message' \in {"", MsgPlotError}

show_plot ==
    /\ plot_enabled
    /\ ShowPlotBody(regression)
    /\ UNCHANGED <<df, col1_items, col1, col2, effect_type, alpha_text,
                   plot_type, regression, inputs_enabled, calc_enabled,
                   plot_enabled, save_enabled, result_label, plot_data>>
    /\ NoEngineCall

save_plot ==
    /\ save_enabled
    /\ IF plot_data = NoAttr THEN /\ message' = ""
                                  /\ NoPlotCall
       ELSE /\ shown' = PlotCall(plot_data, plot_type, regression)
            /\ message' \in {"", MsgPlotError, MsgSaved}
    /\ UNCHANGED <<df, col1_items, col1, col2, effect_type, alpha_text,
                   plot_type, regression, inputs_enabled, calc_enabled,
                   plot_enabled, save_enabled, result_label, plot_data>>
    /\ NoEngineCall

\* The regression checkbox (visible for Numerical Correlation) is toggled:
\* stateChanged runs update_plot, lines 632-634.
ToggleRegression ==
    /\ inputs_enabled
    /\ effect_type = NumCorr
    /\ regression' = ~regression
    /\ IF plot_enabled THEN ShowPlotBody(~regression)
       ELSE /\ message' = ""
            /\ NoPlotCall
    /\ UNCHANGED <<df, col1_items, col1, col2, effect_type, alpha_text,
                   plot_type, inputs_enabled, calc_enabled, plot_enabled,
                   save_enabled, result_label, plot_data>>
    /\ NoEngineCall

Init ==
    /\ GuiInit
    /\ call = NoCall
    /\ ret = Pending

Next ==
    \/ load_file
    \/ preview_data
    \/ SelectColumns
    \/ SelectEffectType
    \/ SelectPlotType
    \/ EditAlpha
    \/ calculate_effect_size
    \/ show_plot
    \/ save_plot
    \/ ToggleRegression

Spec == Init /\ [][Next]_vars

(***************************************************************************)
(* Properties of interpret_effect_size, checked under SpecInterpret.       *)
(***************************************************************************)
Magnitude(v) == IF v < 0 THEN -v ELSE v

\* The bound lies strictly above the magnitude m (in hundredths).
Exceeds(bound, m) == bound.k = "inf" \/ (bound.k = "fin" /\ bound.v > m)

Interpreted == call.fn = "interpret_effect_size" /\ ret # PendingLabel

\* The spellings str.lower() maps onto a key of the table.
RecognizedKind(kind) ==
    Lower(kind) \in {KeyCohensD, KeyEtaSquared, KeyPearsonsR, KeyCramersV}

\* C1: for a recognized kind, in any letter case, and a finite value the
\* label returned is that of the first band, in table order, whose bound is
\* strictly greater than abs(value); bounds increase along the table; a
\* magnitude equal to a bound gets the next band's label (|d| = 0.2 is
\* medium, |r| = 0.9 is perfect).
C1_FirstBandAboveMagnitude ==
    (Interpreted /\ RecognizedKind(call.kind) /\ call.value.k = "fin") =>
        LET bands == interpretations[Lower(call.kind)]
            m == Magnitude(call.value.v)
        IN  /\ ret.exc = ""
            /\ \A i \in DOMAIN bands :
                   i = 1 \/ Exceeds(bands[i][1], bands[i - 1][1].v)
            /\ \E i \in DOMAIN bands :
                   /\ Exceeds(bands[i][1], m)
                   /\ \A j \in 1..(i - 1) : ~Exceeds(bands[j][1], m)
                   /\ ret.label = bands[i][2]
            /\ (Lower(call.kind) = KeyCohensD /\ m = 20)
                   => ret.label = "medium effect size"
            /\ (Lower(call.kind) = KeyPearsonsR /\ m = 90)
                   => ret.label = "perfect correlation"

\* C1 witness: the value -0.2 under the kind COHEN'S D came back medium.
C1_Witness ==
    /\ Interpreted
    /\ call.kind = <<"C","O","H","E","N","'","S"," ","D">>
    /\ call.value = Fin(-20)
    /\ ret.label = "medium effect size"

\* C7: a kind that no letter-casing maps onto a key of the table raises
\* KeyError at the lookup, whatever the value, and no label is returned.
C7_UnknownKindRaises ==
    (Interpreted /\ ~RecognizedKind(call.kind)) =>
        (ret.exc = "KeyError" /\ ret.label = None)

\* C7 witness: the kind hedges' g with the value 0.5 raised KeyError.
C7_Witness ==
    /\ Interpreted
    /\ call.kind = <<"h","e","d","g","e","s","'"," ","g">>
    /\ call.value = Fin(50)
    /\ ret.exc = "KeyError"

(***************************************************************************)
(* Properties of the analyzers, checked under SpecAnalyzers: the call is   *)
(* fn(df, "x", "y", alpha), x the first column of df and y the second.     *)
(***************************************************************************)
Rows == call.df.rows
XCell(i) == Rows[i][1]
YCell(i) == Rows[i][2]

AnalyzerRan(fn) == call.fn = fn /\ ret # Pending
AnalyzerReturned == call.fn \in Analyzers /\ ret.exc = ""

\* The labels of the band table of the metric a significance test goes with.
LabelsOfTest(test) ==
    LET kind == CASE test = "chi2" -> KeyCramersV
                  [] test = "ttest" -> KeyCohensD
                  [] test = "anova" -> KeyEtaSquared
                  [] OTHER -> KeyPearsonsR
    IN  {interpretations[kind][i][2] : i \in DOMAIN interpretations[kind]}

\* p <= alpha on the numbers themselves; a NaN p-value is not below alpha.
PAtMostAlpha == call.p.k = "fin" /\ call.alpha.k = "fin" /\ call.p.v <= call.alpha.v

\* C2: the interpretation an analyzer puts into a result text is always one
\* of the labels of the metric's band table, never None.
C2_InterpretationIsALabel ==
    (AnalyzerReturned /\ ret.text.kind = "effect") =>
        ret.text.interpretation \in LabelsOfTest(ret.test)

\* C3: an analyzer that returns surfaces the effect size together with its
\* interpretation label exactly when p <= alpha (p = alpha included);
\* otherwise the text is the not-significant message holding p and alpha
\* only, no effect size and no label.
C3_EffectAndLabelIffSignificant ==
    AnalyzerReturned =>
        IF PAtMostAlpha
        THEN /\ ret.text.kind = "effect"
             /\ ret.text.value # Absent
             /\ ret.text.interpretation \in LabelsOfTest(ret.test)
             /\ ret.text.p = call.p
        ELSE /\ ret.text.kind = "notsig"
             /\ ret.text.value = Absent
             /\ ret.text.interpretation = ""
             /\ ret.text.p = call.p
             /\ ret.text.alpha = call.alpha

\* The rows cat_on_num_effect_size keeps: x present, y a number.
KeptCatNum == {i \in DOMAIN Rows : XCell(i).k # "na" /\ YCell(i).k = "num"}
Categories == {XCell(i) : i \in KeptCatNum}
RowsOf(c) == {i \in KeptCatNum : XCell(i) = c}

\* C4: with g the number of distinct categories among the rows that survive
\* cleaning, cat_on_num_effect_size raises the category-count ValueError and
\* returns nothing when g < 2, runs the two-group t-test path when g = 2 and
\* the ANOVA path when g > 2; a category whose rows were all dropped does
\* not count.
C4_BranchOnCleanedCategories ==
    AnalyzerRan("cat_on_num_effect_size") =>
        LET g == Cardinality(Categories)
        IN  /\ g < 2 => /\ ret.exc = "ValueError"
                        /\ ret.msg = MsgCategories
                        /\ ret.text = NoText
                        /\ ret.test = ""
            /\ g = 2 => ret.test = "ttest"
            /\ g > 2 => ret.test = "anova"

\* C4 witness: three categories in the file, one of them only on a row whose
\* y is not a number, and the two-group path ran.
C4_Witness ==
    /\ AnalyzerRan("cat_on_num_effect_size")
    /\ Cardinality({XCell(i) : i \in DOMAIN Rows} \ {NA}) = 3
    /\ Cardinality(Categories) = 2
    /\ ret.test = "ttest"

\* The pooled standard deviation is exactly zero: two groups, each with a
\* defined sample variance (two rows or more) and a single value.
PooledDeviationZero ==
    /\ Cardinality(Categories) = 2
    /\ \A c \in Categories :
          /\ Cardinality(RowsOf(c)) >= 2
          /\ Cardinality({YCell(i).v : i \in RowsOf(c)}) = 1

\* C5: on the two-group path a pooled standard deviation of exactly zero
\* makes the call raise the zero-variance ValueError with no result text,
\* whatever the p-value of the t-test, so no Cohen's d text comes out of a
\* division by a zero pooled deviation.
C5_ZeroPooledDeviationRaises ==
    AnalyzerRan("cat_on_num_effect_size") =>
        /\ PooledDeviationZero =>
              /\ ret.exc = "ValueError"
              /\ ret.msg = MsgPooledZero
              /\ ret.text = NoText
        /\ (ret.exc = "" /\ ret.test = "ttest") => ~PooledDeviationZero

\* C5 witness: two constant groups with different values, the t-test's
\* p-value 0 <= alpha, and the call raised the zero-variance error.
C5_Witness ==
    /\ AnalyzerRan("cat_on_num_effect_size")
    /\ PooledDeviationZero
    /\ call.p = PZero
    /\ PAtMostAlpha
    /\ ret.msg = MsgPooledZero

\* The rows correlation_effect_size keeps: x and y both numbers.
ValidNumNum == {i \in DOMAIN Rows : XCell(i).k = "num" /\ YCell(i).k = "num"}

\* C6: correlation_effect_size raises the not-enough-data ValueError, before
\* any correlation is computed and with nothing returned, exactly when fewer
\* than two rows have a number in both columns.
C6_InsufficientDataIffUnderTwoRows ==
    AnalyzerRan("correlation_effect_size") =>
        /\ (Cardinality(ValidNumNum) < 2)
              <=> (ret.exc = "ValueError" /\ ret.msg = MsgNotEnough)
        /\ Cardinality(ValidNumNum) < 2 => (ret.text = NoText /\ ret.test = "")
        /\ Cardinality(ValidNumNum) >= 2 => ret.test = "pearsonr"

\* C6 witness: a file of three rows, one of them with numbers in both
\* columns, and the call raised the not-enough-data error.
C6_Witness ==
    /\ AnalyzerRan("correlation_effect_size")
    /\ Len(Rows) = 3
    /\ Cardinality(ValidNumNum) = 1
    /\ ret.msg = MsgNotEnough

(***************************************************************************)
(* Properties of calculate_effect_size, checked under Spec.                *)
(***************************************************************************)
Dispatched == call # NoCall

ResultUnchanged == UNCHANGED <<result_label, plot_data, plot_enabled, save_enabled>>

\* The alpha texts float() accepts.
NumericText(text) == text \in {"0.05", "0", "1", "-1", "2"}

\* C8 as stated: a click on Calculate with the same column chosen twice is
\* answered with the two-different-columns message, no analyzer runs, result
\* text, plot data and the plot and save buttons stay as they were, and every
\* analyzer call has two different column names.
C8_SameColumnsRejectedAsStated ==
    /\ [](Dispatched => call.a # call.b)
    /\ [][(col1 = col2 /\ calculate_effect_size) =>
            (message' = MsgColumns /\ ~Dispatched' /\ ResultUnchanged)]_vars

\* C8 amended: a click on Calculate with the same column chosen twice is
\* rejected before any analyzer runs, with the two-different-columns message
\* when the alpha text is a number and with the alpha message when it is
\* not (alpha is looked at first); result text, plot data and the buttons
\* stay as they were, and every analyzer call has two different column names.
C8_SameColumnsRejected ==
    /\ [](Dispatched => call.a # call.b)
    /\ [][(col1 = col2 /\ calculate_effect_size) =>
            /\ message' = (IF NumericText(alpha_text) THEN MsgColumns ELSE MsgAlpha)
            /\ ~Dispatched'
            /\ ResultUnchanged]_vars

\* C8 witness: a result is on display, the same column is chosen twice and
\* the click was answered with the two-different-columns message.
C8_Witness ==
    /\ col1 = col2
    /\ message = MsgColumns
    /\ ~Dispatched
    /\ result_label # NoText
    /\ plot_enabled

\* C9: no analyzer is called with an alpha outside the open interval (0, 1).
C9_AlphaInUnitInterval ==
    Dispatched =>
        (call.alpha.k = "fin" /\ 0 < call.alpha.v /\ call.alpha.v < Scale)

\* C10: when the analyzer called by calculate_effect_size raises, result
\* text and plot data keep their values and the plot and save buttons are
\* not enabled; result text and plot data change only in a step in which the
\* analyzer returned, and then both are set from that call.
C10_NoPartialResult ==
    /\ [][(Dispatched' /\ ret'.exc # "") => ResultUnchanged]_vars
    /\ [][(result_label' # result_label \/ plot_data' # plot_data) =>
            /\ Dispatched'
            /\ ret'.exc = ""
            /\ result_label' = ret'.text
            /\ plot_data' = [df |-> call'.df, col1 |-> call'.a, col2 |-> call'.b,
                             effect_type |-> effect_type]]_vars

\* C10 witness: a result is on display and the latest calculation raised the
\* zero-variance error; the display still shows the earlier result.
C10_Witness ==
    /\ Dispatched
    /\ ret.exc = "ValueError"
    /\ message = MsgPooledZero
    /\ result_label # NoText
    /\ plot_data # NoAttr
    /\ plot_data.effect_type # effect_type

(***************************************************************************)
(* Properties of show_plot and save_plot, checked under Spec.              *)
(***************************************************************************)
Plotted == shown # NoPlot

\* The rows of the stored table the analyzer of the stored analysis kind
\* keeps: the category present and the value a number for Categorical on
\* Numerical, both values numbers for Numerical Correlation.
CleanedRowsOfPlotData ==
    LET pa == Pos(plot_data.df, plot_data.col1)
        pb == Pos(plot_data.df, plot_data.col2)
    IN  IF plot_data.effect_type = CatOnNum
        THEN SelectSeq(plot_data.df.rows,
                       LAMBDA r : r[pa].k # "na" /\ r[pb].k = "num")
        ELSE SelectSeq(plot_data.df.rows,
                       LAMBDA r : r[pa].k = "num" /\ r[pb].k = "num")

\* C11: the table a Categorical on Numerical or Numerical Correlation plot
\* is drawn from holds exactly the rows of the analyzer's cleaned subset,
\* not the rows of the loaded file.
C11_PlotFromCleanedRows ==
    (Plotted /\ shown.fn \in {"show_cohens_d_plot", "show_pearsons_r_plot"}) =>
        shown.data.rows = CleanedRowsOfPlotData

(***************************************************************************)
(* The caller's table, checked under SpecAnalyzers.                        *)
(***************************************************************************)
\* C12: a call of an analyzer, whether it returns or raises, leaves every
\* cell of the table it was given as it was, text in a coerced column and
\* rows missing from the cleaned subset included; coercion and row removal
\* show in the returned copy only.
C12_CallerTableUnchanged == [][call'.df = call.df]_vars

\* C12 witness: correlation_effect_size returned a cleaned copy with fewer
\* rows than the table it was given, which still holds a text cell.
C12_Witness ==
    /\ AnalyzerRan("correlation_effect_size")
    /\ ret.exc = ""
    /\ Len(ret.data.rows) < Len(Rows)
    /\ \E i \in DOMAIN Rows : XCell(i).k = "txt" \/ YCell(i).k = "txt"

\* The plot styles of an analysis kind.
StylesOf(et) ==
    CASE et = CatOnCat -> {"Stacked Bar Chart", "Grouped Bar Chart", "Heatmap"}
      [] et = CatOnNum -> {"Box Plot", "Violin Plot", "Strip Plot"}
      [] OTHER -> {"Scatter Plot", "Hexbin Plot", "Regression Plot"}

\* C13: whenever a plotting function is called, from show_plot, save_plot
\* or the re-plot on toggling the regression checkbox, the plot style it is
\* given is one of the styles of the analysis kind stored in plot_data.
C13_StyleOfStoredKind ==
    Plotted => shown.plot_type \in StylesOf(plot_data.effect_type)

(***************************************************************************)
(* The divisor of Cramer's V, checked under SpecCramersV.                  *)
(***************************************************************************)
\* C14: once line 134 has run, denom is the smaller of r - 1 and k - 1 when
\* that is positive and 1 otherwise, r and k the numbers of rows and columns
\* of the contingency table; so denom >= 1 for every table, a single row or
\* a single column included, and Cramer's V comes out of a division by a
\* positive denom as a number that is not negative.
C14_DenomAtLeastOne ==
    ret.line \in {134, 137} =>
        /\ ret.r >= 1 /\ ret.k >= 1
        /\ ret.denom >= 1
        /\ (ret.r = 1 \/ ret.k = 1) => ret.denom = 1
        /\ (ret.r > 1 /\ ret.k > 1) =>
              /\ ret.denom \in {ret.r - 1, ret.k - 1}
              /\ ret.denom <= ret.r - 1
              /\ ret.denom <= ret.k - 1
        /\ ret.line = 137 => (ret.cramers_v.k = "fin" /\ ret.cramers_v.v >= 0)

\* C14 witness: a contingency table of one row and two columns, denom 1 and
\* Cramer's V computed as 0.
C14_Witness ==
    /\ ret.line = 137
    /\ ret.r = 1
    /\ ret.k = 2
    /\ ret.denom = 1
    /\ ret.cramers_v = Fin(0)

(***************************************************************************)
(* The order of the workflow, checked under Spec.                          *)
(***************************************************************************)
Buttons == <<calc_enabled, plot_enabled, save_enabled>>

\* C15: the Calculate button is enabled only with a loaded file, and only a
\* preview of a loaded file enables it; the Preview Plot and Save Plot
\* buttons are enabled only with stored plot data, and only a calculation
\* whose analyzer returned enables them; no plotting function is called
\* without stored plot data; a failed load and a failed calculation leave
\* all three buttons as they were.
C15_WorkflowOrder ==
    /\ [](/\ calc_enabled => (df # NoAttr /\ inputs_enabled)
          /\ (plot_enabled \/ save_enabled) => (plot_data # NoAttr /\ calc_enabled)
          /\ Plotted => plot_data # NoAttr)
    /\ [][/\ (calc_enabled' /\ ~calc_enabled) => (preview_data /\ df # NoAttr)
          /\ ((plot_enabled' /\ ~plot_enabled) \/ (save_enabled' /\ ~save_enabled)) =>
                (Dispatched' /\ ret'.exc = "" /\ plot_data' # NoAttr)
          /\ (message' = MsgLoadFailed \/ (Dispatched' /\ ret'.exc # "")) =>
                UNCHANGED Buttons]_vars

\* C15 witness: with all three buttons enabled a calculation raised, and
\* the buttons are still enabled over the plot data stored earlier.
C15_Witness ==
    /\ Dispatched
    /\ ret.exc # ""
    /\ calc_enabled /\ plot_enabled /\ save_enabled
    /\ df # NoAttr
    /\ plot_data # NoAttr

====
